---- MODULE Spec2Model ----
(***************************************************************************)
(* The client-side hybrid search of src/src/js/pagefind-search.js: the two *)
(* loaders, the custom-index search, the static (Pagefind) adapter, the    *)
(* merge / filter / group / render pipeline of performSearch and the input *)
(* and category listeners, as one state machine.                           *)
(*                                                                         *)
(* A text (title, content, query, input value) is a sequence of            *)
(* one-character strings, so that trim, toLowerCase, includes and length   *)
(* are computed as the code computes them.  Labels that the code only      *)
(* compares for equality (url, category, type) are TLA+ strings.           *)
(***************************************************************************)
EXTENDS Integers, Sequences, FiniteSets, TLC

\* ------------------------------------------------------------------ bounds
\* Searches that may be awaiting the static engine at the same time.
MaxInFlight == 2
\* Longest custom index a response body may hold.
MaxIndex == 2
\* Most hits the static engine returns for one query.
MaxHits == 2
\* Timeouts that may be pending at the same time.
MaxTimers == 2

\* ------------------------------------------------------------------- texts
\* JavaScript's undefined / null in a field that otherwise holds a text.
Missing == <<"undefined">>

IsFalsy(t) == t = Missing \/ t = <<>>

Lower(ch) ==
  CASE ch = "J" -> "j"
    [] ch = "A" -> "a"
    [] ch = "D" -> "d"
    [] ch = "O" -> "o"
    [] OTHER -> ch

ToLowerCase(s) == [i \in 1..Len(s) |-> Lower(s[i])]

Includes(s, sub) ==
  \E i \in 0..(Len(s) - Len(sub)) : SubSeq(s, i + 1, i + Len(sub)) = sub

IsSpace(ch) == ch = " "

RECURSIVE TrimStart(_)
TrimStart(s) ==
  IF s # <<>> /\ IsSpace(Head(s)) THEN TrimStart(Tail(s)) ELSE s

RECURSIVE TrimEnd(_)
TrimEnd(s) ==
  IF s # <<>> /\ IsSpace(s[Len(s)]) THEN TrimEnd(SubSeq(s, 1, Len(s) - 1)) ELSE s

Trim(s) == TrimEnd(TrimStart(s))

\* new RegExp(`(${query})`, 'gi') compiles unless the pattern is malformed.  Over
\* the characters used here the only malformed patterns are those with an
\* unbalanced parenthesis.
RECURSIVE ParenDepth(_, _)
ParenDepth(p, d) ==
  IF d < 0 THEN -1
  ELSE IF p = <<>> THEN d
  ELSE ParenDepth(Tail(p), IF Head(p) = "(" THEN d + 1
                           ELSE IF Head(p) = ")" THEN d - 1 ELSE d)

RegExpCompiles(query) == ParenDepth(<<"(">> \o query \o <<")">>, 0) = 0

\* ------------------------------------------------------------- the data
CatStaff == "Staff Directory"
CatInfo == "Information"
Categories == {CatStaff, CatInfo}
\* The values of the category filter: '' (all categories) or a label.
FilterValues == {""} \cup Categories

\* Records of the kind the index builder emits (api_publications.js GET):
\* several records may share one url; a title may be null.
RecJane ==
  [title |-> <<"J", "a">>, url |-> "/s", content |-> <<"j", "a", " ", "d", "o">>,
   type |-> "staff", category |-> CatStaff, excerpt |-> Missing, src |-> "custom"]
RecDoe ==
  [title |-> <<"D", "O">>, url |-> "/s", content |-> <<"x", "(">>,
   type |-> "page", category |-> CatInfo, excerpt |-> Missing, src |-> "custom"]
RecPage ==
  [title |-> <<"j", "a", "x">>, url |-> "/p", content |-> <<"d", "o", "x", "(">>,
   type |-> "page", category |-> CatInfo, excerpt |-> Missing, src |-> "custom"]
RecNoTitle ==
  [title |-> Missing, url |-> "/p", content |-> <<"j", "a">>,
   type |-> "news", category |-> CatInfo, excerpt |-> Missing, src |-> "custom"]

CustomRecords == {RecJane, RecDoe, RecPage, RecNoTitle}

RECURSIVE SeqsUpTo(_, _)
SeqsUpTo(S, n) ==
  IF n = 0 THEN {<<>>}
  ELSE LET shorter == SeqsUpTo(S, n - 1)
       IN shorter \cup {Append(s, x) : s \in {t \in shorter : Len(t) = n - 1}, x \in S}

\* What response.json() may yield: an array of records, or a value that is not
\* an array (an object such as an error body, or null).
JsonArray(items) == [kind |-> "array", items |-> items]
JsonObject == [kind |-> "object", items |-> <<>>]
JsonNull == [kind |-> "null", items |-> <<>>]
ParsedBodies == {JsonArray(s) : s \in SeqsUpTo(CustomRecords, MaxIndex)} \cup {JsonObject, JsonNull}

\* The per-hit detail the static engine loads lazily (result.data()).
DataJane ==
  [url |-> "/s", metaTitle |-> <<"J", "a", "j", "a", " ", "B", "i", "o">>,
   metaCategory |-> CatStaff,
   content |-> <<"j", "a">>, excerpt |-> <<"j", "a">>]
\* A page text longer than an excerpt: a tag, 58 characters, "Ja" after two
\* spaces, 108 characters, "do".
Filler(n) == [i \in 1..n |-> "-"]
LongContent ==
  <<"<", "b", ">">> \o Filler(58) \o <<" ", " ", "J", "a">> \o Filler(108) \o <<"d", "o">>
DataPlain ==
  [url |-> "/s", metaTitle |-> Missing, metaCategory |-> "",
   content |-> LongContent, excerpt |-> <<>>]
DataHome ==
  [url |-> "/h", metaTitle |-> <<"H">>, metaCategory |-> CatInfo,
   content |-> <<>>, excerpt |-> <<"d", "o">>]

HitData == {DataJane, DataPlain, DataHome}
HitLists == SeqsUpTo(HitData, MaxHits)

\* What the user can leave in the search input, and what the address can carry.
InputTexts ==
  {<<>>, <<" ", "j">>, <<"j", "a">>, <<"D", "O", " ">>, <<"x", "(">>}
UrlParams == {Missing, <<>>, <<"j">>, <<"j", "a">>}

\* The page of the specification Spec, which follows any number of overlapping
\* searches: one index body, a static engine that finds no page, two filter
\* values, three input texts.
PageBodies == {JsonArray(<<RecJane, RecPage>>)}
PageHitLists == {<<>>}
PageFilterValues == {"", CatStaff}
PageInputTexts == {<<>>, <<"j", "a">>, <<"x", "(">>}

\* ------------------------------------------------- the search functions
\* One item of searchIndex.filter's callback, lines 57-65: "throw" when a
\* toLowerCase is called on a missing field.  content is tested first and the
\* || does not evaluate title when content matches.
ItemMatch(item, lowerQuery, category) ==
  IF item.content = Missing THEN "throw"
  ELSE IF Includes(ToLowerCase(item.content), lowerQuery)
       THEN (IF category = "" \/ item.category = category THEN "yes" ELSE "no")
  ELSE IF item.title = Missing THEN "throw"
  ELSE IF Includes(ToLowerCase(item.title), lowerQuery)
          /\ (category = "" \/ item.category = category)
       THEN "yes"
  ELSE "no"

\* searchContent(query, category) on the index idx: the matches in index
\* order, or a TypeError (idx is no array, or an item misses a field).
SearchContent(idx, query, category) ==
  LET lowerQuery == ToLowerCase(query)
  IN IF idx.kind # "array" THEN [threw |-> TRUE, value |-> <<>>]
     ELSE IF \E i \in 1..Len(idx.items) :
                ItemMatch(idx.items[i], lowerQuery, category) = "throw"
          THEN [threw |-> TRUE, value |-> <<>>]
     ELSE [threw |-> FALSE,
           value |-> SelectSeq(idx.items,
                       LAMBDA item : ItemMatch(item, lowerQuery, category) = "yes")]

Untitled == <<"U", "n", "t", "i", "t", "l", "e", "d">>

\* The record searchPagefind builds from one hit's data, lines 78-90.
HitRecord(data) ==
  [title |-> IF IsFalsy(data.metaTitle) THEN Untitled ELSE data.metaTitle,
   url |-> data.url,
   content |-> IF ~IsFalsy(data.content) THEN data.content
               ELSE IF ~IsFalsy(data.excerpt) THEN data.excerpt ELSE <<>>,
   type |-> "page",
   category |-> IF data.metaCategory = "" THEN CatInfo ELSE data.metaCategory,
   excerpt |-> IF IsFalsy(data.excerpt) THEN <<>> ELSE data.excerpt,
   src |-> "static"]

HitRecords(hits) == [i \in 1..Len(hits) |-> HitRecord(hits[i])]

\* AddUnseen without the urlSet.has test.
AddUnseenNoCheck(merged, urlSet, results) == merged \o results

\* The forEach of lines 167-172 and 175-180: append the results whose url is
\* not in the set yet.
RECURSIVE AddUnseen(_, _, _)
AddUnseen(merged, urlSet, results) ==
  IF results = <<>> THEN merged
  ELSE IF Head(results).url \in urlSet
       THEN AddUnseen(merged, urlSet, Tail(results))
  ELSE AddUnseen(Append(merged, Head(results)), urlSet \cup {Head(results).url},
                 Tail(results))

Urls(results) == {results[i].url : i \in 1..Len(results)}

MergeResults(customResults, pagefindResults) ==
  LET custom == AddUnseen(<<>>, {}, customResults)
  IN AddUnseen(custom, Urls(custom), pagefindResults)

\* FilterResults without the filter of line 184.
FilterResultsOff(mergedResults, category) == mergedResults

FilterResults(mergedResults, category) ==
  IF category # ""
  THEN SelectSeq(mergedResults, LAMBDA r : r.category = category)
  ELSE mergedResults

\* The reduce of lines 195-200 read through Object.entries: one entry per
\* category in the order the categories are first met (no label used here is
\* an integer-like key, which Object.entries would list first).
GroupKey(result) == IF result.category = "" THEN "Other" ELSE result.category

\* GroupResults with a new category put before the ones met earlier.
RECURSIVE GroupResultsNewFirst(_, _)
GroupResultsNewFirst(acc, results) ==
  IF results = <<>> THEN acc
  ELSE LET cat == GroupKey(Head(results))
           at == {i \in 1..Len(acc) : acc[i].category = cat}
       IN IF at = {}
          THEN GroupResultsNewFirst(
                 <<[category |-> cat, items |-> <<Head(results)>>]>> \o acc,
                 Tail(results))
          ELSE LET i == CHOOSE j \in at : TRUE
               IN GroupResultsNewFirst([acc EXCEPT ![i].items = Append(@, Head(results))],
                                       Tail(results))

RECURSIVE GroupResults(_, _)
GroupResults(acc, results) ==
  IF results = <<>> THEN acc
  ELSE LET cat == GroupKey(Head(results))
           at == {i \in 1..Len(acc) : acc[i].category = cat}
       IN IF at = {}
          THEN GroupResults(Append(acc, [category |-> cat, items |-> <<Head(results)>>]),
                            Tail(results))
          ELSE LET i == CHOOSE j \in at : TRUE
               IN GroupResults([acc EXCEPT ![i].items = Append(@, Head(results))],
                               Tail(results))

\* The opening and closing tag of a highlight, line 143.
MarkOpen == "<mark>"
MarkClose == "</mark>"

\* The literal text a pattern that compiles matches: over the characters used
\* here a parenthesis only groups.
Literal(query) == SelectSeq(query, LAMBDA ch : ch \notin {"(", ")"})

\* text.replace(regex, '<mark ...>$1</mark>') with the flags gi: from left to
\* right, every occurrence of lit that does not overlap an earlier one is
\* wrapped, in the letters the text has.
\* (With an empty lit the pattern matches the empty text before every
\* character and at the end.)
MatchAt(text, lit, p) ==
  /\ p + Len(lit) - 1 <= Len(text)
  /\ ToLowerCase(SubSeq(text, p, p + Len(lit) - 1)) = ToLowerCase(lit)

RECURSIVE MarkFrom(_, _, _)
MarkFrom(text, lit, from) ==
  IF \E p \in from..Len(text) : MatchAt(text, lit, p)
  THEN LET p == CHOOSE q \in from..Len(text) :
                  MatchAt(text, lit, q) /\ \A r \in from..(q - 1) : ~MatchAt(text, lit, r)
       IN SubSeq(text, from, p - 1) \o <<MarkOpen>>
          \o SubSeq(text, p, p + Len(lit) - 1) \o <<MarkClose>>
          \o (IF lit = <<>>
              THEN <<text[p]>> \o MarkFrom(text, lit, p + 1)
              ELSE MarkFrom(text, lit, p + Len(lit)))
  ELSE SubSeq(text, from, Len(text)) \o (IF lit = <<>> THEN <<MarkOpen, MarkClose>> ELSE <<>>)

\* Mark without the flag g: only the first occurrence is wrapped.
MarkFirst(text, lit) ==
  IF \E p \in 1..Len(text) : MatchAt(text, lit, p)
  THEN LET p == CHOOSE q \in 1..Len(text) :
                  MatchAt(text, lit, q) /\ \A r \in 1..(q - 1) : ~MatchAt(text, lit, r)
       IN SubSeq(text, 1, p - 1) \o <<MarkOpen>>
          \o SubSeq(text, p, p + Len(lit) - 1) \o <<MarkClose>>
          \o SubSeq(text, p + Len(lit), Len(text))
  ELSE text

Mark(text, lit) == MarkFrom(text, lit, 1)

\* highlightText(text, query), lines 141-144: a SyntaxError when the pattern
\* does not compile, a TypeError when text is null or undefined.
HighlightThrows(text, query) == ~RegExpCompiles(query) \/ text = Missing

HighlightText(text, query) ==
  IF HighlightThrows(text, query)
  THEN [threw |-> TRUE, html |-> <<>>]
  ELSE [threw |-> FALSE, html |-> Mark(text, Literal(query))]

\* text.replace(/<[^>]*>/g, ' '), line 122: each tag becomes a space; a "<"
\* that no ">" follows stays.
\* Position k lies in a tag: a "<" at or before it with no ">" between them,
\* and a ">" at or after it.
InTag(text, k) ==
  \E i \in 1..k :
    /\ text[i] = "<"
    /\ \A m \in (i + 1)..(k - 1) : text[m] # ">"
    /\ \E j \in (IF k > i THEN k ELSE i + 1)..Len(text) : text[j] = ">"

Dropped == "dropped"

StripTags(text) ==
  IF \A k \in 1..Len(text) : text[k] # "<" THEN text
  ELSE SelectSeq([k \in 1..Len(text) |->
                    IF ~InTag(text, k) THEN text[k]
                    ELSE IF text[k] = ">" THEN " " ELSE Dropped],
                 LAMBDA ch : ch # Dropped)

\* .replace(/\s+/g, ' '): a run of white space becomes one space.
CollapseSpaces(text) ==
  SelectSeq([k \in 1..Len(text) |->
               IF ~IsSpace(text[k]) THEN text[k]
               ELSE IF k > 1 /\ IsSpace(text[k - 1]) THEN Dropped ELSE " "],
            LAMBDA ch : ch # Dropped)

TextOnly(text) == Trim(CollapseSpaces(StripTags(text)))

\* s.indexOf(sub): the first position (from 0) where sub occurs, or -1.
IndexOf(s, sub) ==
  IF Includes(s, sub)
  THEN CHOOSE i \in 0..(Len(s) - Len(sub)) :
         /\ SubSeq(s, i + 1, i + Len(sub)) = sub
         /\ \A k \in 0..(i - 1) : SubSeq(s, k + 1, k + Len(sub)) # sub
  ELSE -1

\* s.substring(from, to) for 0 <= from <= to.
Substring(s, from, to) ==
  SubSeq(s, from + 1, IF to < Len(s) THEN to ELSE Len(s))

Ellipsis == <<".", ".", ".">>

\* The characters createExcerpt keeps before the match and after it, lines
\* 131-132, and the length performSearch asks for, line 205.
WindowBefore == 50
WindowAfter == 100
ExcerptLength == 150

Max(a, b) == IF a > b THEN a ELSE b
Min(a, b) == IF a < b THEN a ELSE b

\* createExcerpt throws at line 122 when text is null or undefined, and at
\* line 138 when the query occurs in the text and is no pattern.
CreateExcerptThrows(text, query) ==
  \/ text = Missing
  \/ /\ ~RegExpCompiles(query)
     /\ Includes(ToLowerCase(TextOnly(text)), ToLowerCase(query))

\* createExcerpt(text, query, length), lines 121-139.
CreateExcerpt(text, query, length) ==
  IF CreateExcerptThrows(text, query) THEN [threw |-> TRUE, html |-> <<>>]
  ELSE LET textOnly == TextOnly(text)
           index == IndexOf(ToLowerCase(textOnly), ToLowerCase(query))
       IN IF index = -1
          THEN [threw |-> FALSE, html |-> Substring(textOnly, 0, length) \o Ellipsis]
          ELSE LET start == Max(0, index - WindowBefore)
                   end == Min(Len(textOnly), index + Len(query) + WindowAfter)
                   excerpt == (IF start > 0 THEN Ellipsis ELSE <<>>)
                              \o Substring(textOnly, start, end)
                              \o (IF end < Len(textOnly) THEN Ellipsis ELSE <<>>)
               IN HighlightText(excerpt, query)

\* What the card of one result shows, lines 204-236: the excerpt of line 205
\* and the highlighted title of line 225.
Card(result, query) ==
  [excerpt |-> IF ~IsFalsy(result.excerpt)
               THEN [threw |-> FALSE, html |-> result.excerpt]
               ELSE CreateExcerpt(result.content, query, ExcerptLength),
   title |-> HighlightText(result.title, query)]

\* Rendering one card throws when its title or its excerpt does.
CardThrows(result, query) ==
  \/ HighlightThrows(result.title, query)
  \/ IsFalsy(result.excerpt) /\ CreateExcerptThrows(result.content, query)

RenderThrows(filteredResults, query) ==
  \E i \in 1..Len(filteredResults) : CardThrows(filteredResults[i], query)

\* The content of the results container.
EmptyHTML == [count |-> 0, devNote |-> FALSE, groups |-> <<>>]

\* One block of the page, lines 203-247: the heading `${category}
\* (${items.length})` and the cards of the category.
GroupBlock(group) ==
  [category |-> group.category, count |-> Len(group.items), items |-> group.items]

\* The results container is kept as the records it shows, block by block;
\* the markup of the card of a record is Card(record, query).
ResultsHTML(filteredResults, loaded) ==
  LET grouped == GroupResults(<<>>, filteredResults)
  IN [count |-> Len(filteredResults),
      devNote |-> ~loaded,
      groups |-> [i \in 1..Len(grouped) |-> GroupBlock(grouped[i])]]


\* --------------------------------------------------------------- the state
VARIABLES
  searchIndex,          \* let searchIndex = []: what the loader left in memory
  pagefind,             \* "null" or "module"
  pagefindLoaded,       \* the availability flag
  indexFetch,           \* loadSearchIndex: "pending", or how its fetch ended
  pagefindProbe,        \* loadPagefind: "pending", or how it ended
  initPc,               \* initializeSearch: "loading", then "ready" (listeners attached)
  locationQ,            \* the q parameter of the address, or Missing
  inputValue,           \* searchInput.value
  categoryValue,        \* categoryFilter.value
  timers,               \* the pending timeouts, oldest first: the query of each
                        \* callback, and whether debounceTimer holds its id
  loadingHidden,        \* #search-loading carries class hidden
  resultsHTML,          \* #search-results innerHTML
  noResultsHidden,      \* #no-results carries class hidden
  otherServicesHidden,  \* #other-services carries class hidden
  inFlight,             \* the performSearch calls awaiting the static engine, oldest first
  lastDone,             \* history: the performSearch call that ended last
  lastCall,             \* history: the performSearch call that started last
  lastEvent,            \* history: the listener or callback that ran last
  cancelled             \* history: the query of the timeout the last input event
                        \* cleared, or Missing

vars ==
  <<searchIndex, pagefind, pagefindLoaded, indexFetch, pagefindProbe, initPc,
    locationQ, inputValue, categoryValue, timers, loadingHidden,
    resultsHTML, noResultsHidden, otherServicesHidden, inFlight, lastDone,
    lastCall, lastEvent, cancelled>>

loaderVars == <<searchIndex, pagefind, pagefindLoaded, indexFetch, pagefindProbe>>
searchVars ==
  <<loadingHidden, resultsHTML, noResultsHidden, inFlight, lastDone, lastCall>>
uiVars ==
  <<initPc, locationQ, inputValue, categoryValue, timers, otherServicesHidden,
    lastEvent, cancelled>>

Dom == [loadingHidden |-> loadingHidden, resultsHTML |-> resultsHTML,
        noResultsHidden |-> noResultsHidden]

\* The page as its markup delivers it, before any search: nothing shown.
IdleDom == [loadingHidden |-> TRUE, resultsHTML |-> EmptyHTML, noResultsHidden |-> TRUE]

NoSearch ==
  [query |-> Missing, category |-> "", static |-> "none", hits |-> <<>>,
   custom |-> <<>>, outcome |-> "none", sequential |-> FALSE, repeat |-> FALSE,
   dom |-> IdleDom]

\* No performSearch call yet.
NoCall == [query |-> Missing, category |-> ""]

Init ==
  /\ searchIndex = JsonArray(<<>>)
  /\ pagefind = "null"
  /\ pagefindLoaded = FALSE
  /\ indexFetch = "pending"
  /\ pagefindProbe = "pending"
  /\ initPc = "loading"
  /\ locationQ \in UrlParams
  /\ inputValue = <<>>
  /\ categoryValue = ""
  /\ timers = <<>>
  /\ loadingHidden = IdleDom.loadingHidden
  /\ resultsHTML = IdleDom.resultsHTML
  /\ noResultsHidden = IdleDom.noResultsHidden
  /\ otherServicesHidden = FALSE
  /\ inFlight = <<>>
  /\ lastDone = NoSearch
  /\ lastCall = NoCall
  /\ lastEvent = "none"
  /\ cancelled = Missing

\* ------------------------------------------------------------ the loaders
\* loadSearchIndex, lines 38-52.  fetch rejects: the catch logs, searchIndex
\* keeps its value.
LoadSearchIndexRejects ==
  /\ indexFetch = "pending"
  /\ indexFetch' = "rejected"
  /\ UNCHANGED <<searchIndex, pagefind, pagefindLoaded, pagefindProbe>>
  /\ UNCHANGED uiVars
  /\ UNCHANGED searchVars

\* fetch resolves (response.ok is not read) and response.json() rejects.
LoadSearchIndexUnparsable(ok) ==
  /\ indexFetch = "pending"
  /\ indexFetch' = IF ok THEN "okUnparsable" ELSE "notOkUnparsable"
  /\ UNCHANGED <<searchIndex, pagefind, pagefindLoaded, pagefindProbe>>
  /\ UNCHANGED uiVars
  /\ UNCHANGED searchVars

\* LoadSearchIndexParsed as a load that any later moment can repeat.
LoadSearchIndexParsedAgain(ok, body) ==
  /\ indexFetch' = IF ok THEN "okParsed" ELSE "notOkParsed"
  /\ searchIndex' = body
  /\ UNCHANGED <<pagefind, pagefindLoaded, pagefindProbe>>
  /\ UNCHANGED uiVars
  /\ UNCHANGED searchVars

\* fetch resolves and response.json() yields body: line 47 stores it whatever
\* it is (for null the log of line 48 then throws into the catch).
LoadSearchIndexParsed(ok, body) ==
  /\ indexFetch = "pending"
  /\ indexFetch' = IF ok THEN "okParsed" ELSE "notOkParsed"
  /\ searchIndex' = body
  /\ UNCHANGED <<pagefind, pagefindLoaded, pagefindProbe>>
  /\ UNCHANGED uiVars
  /\ UNCHANGED searchVars

\* loadPagefind, lines 10-35, by the way it ends: "probeRejected" (the HEAD
\* fetch rejects and .catch yields {ok: false}), "probeNotOk", "importThrew"
\* (pagefind stays null), "optionsThrew" (pagefind is set, the catch clears
\* the flag), "loaded".
PagefindEndings == {"probeRejected", "probeNotOk", "importThrew", "optionsThrew", "loaded"}

\* LoadPagefindEnds with the flag set before pagefind.options is awaited and
\* a catch that does not clear it.
LoadPagefindEndsNoReset(how) ==
  /\ pagefindProbe = "pending"
  /\ pagefindProbe' = how
  /\ pagefind' = IF how \in {"optionsThrew", "loaded"} THEN "module" ELSE pagefind
  /\ pagefindLoaded' = (how \in {"optionsThrew", "loaded"})
  /\ UNCHANGED <<searchIndex, indexFetch>>
  /\ UNCHANGED <<initPc, locationQ, inputValue, categoryValue, timers,
                 otherServicesHidden, lastEvent, cancelled>>
  /\ UNCHANGED <<loadingHidden, resultsHTML, noResultsHidden, inFlight, lastDone,
                 lastCall>>

LoadPagefindEnds(how) ==
  /\ pagefindProbe = "pending"
  /\ pagefindProbe' = how
  /\ pagefind' = IF how \in {"optionsThrew", "loaded"} THEN "module" ELSE pagefind
  /\ pagefindLoaded' = IF how = "loaded" THEN TRUE
                       ELSE IF how \in {"importThrew", "optionsThrew"} THEN FALSE
                       ELSE pagefindLoaded
  /\ UNCHANGED <<searchIndex, indexFetch>>
  /\ UNCHANGED uiVars
  /\ UNCHANGED searchVars

\* ---------------------------------------------------------- performSearch
\* StartDom without line 154.
StartDomKeepsNoResults ==
  [loadingHidden |-> FALSE, resultsHTML |-> EmptyHTML, noResultsHidden |-> noResultsHidden]

\* Lines 152-154: the indicators as performSearch sets them before it awaits.
StartDom ==
  [loadingHidden |-> FALSE, resultsHTML |-> EmptyHTML, noResultsHidden |-> TRUE]

\* RenderDom with line 187 after the no-results branch of lines 189-192.
RenderDomHidesLate(dom, query, category, customResults, pagefindResults) ==
  LET mergedResults == MergeResults(customResults, pagefindResults)
      filteredResults == FilterResults(mergedResults, category)
  IN IF filteredResults = <<>>
     THEN [dom EXCEPT !.noResultsHidden = FALSE]
     ELSE IF RenderThrows(filteredResults, query)
     THEN [dom EXCEPT !.loadingHidden = TRUE]
     ELSE [dom EXCEPT !.loadingHidden = TRUE,
                      !.resultsHTML = ResultsHTML(filteredResults, pagefindLoaded)]

\* Lines 162-255, from the two result lists to the page: merge, filter, hide
\* the loading indicator, then the no-results indicator or the rendering.
\* dom is the page as the continuation finds it.
RenderDom(dom, query, category, customResults, pagefindResults) ==
  LET mergedResults == MergeResults(customResults, pagefindResults)
      filteredResults == FilterResults(mergedResults, category)
  IN IF filteredResults = <<>>
     THEN [dom EXCEPT !.loadingHidden = TRUE, !.noResultsHidden = FALSE]
     ELSE IF RenderThrows(filteredResults, query)
     THEN [dom EXCEPT !.loadingHidden = TRUE]
     ELSE [dom EXCEPT !.loadingHidden = TRUE,
                      !.resultsHTML = ResultsHTML(filteredResults, pagefindLoaded)]

\* How a performSearch call ends: "empty" (line 191), "threw" (an exception
\* out of lines 203-247), "results" (line 249).
Outcome(query, category, customResults, pagefindResults) ==
  LET filteredResults == FilterResults(MergeResults(customResults, pagefindResults), category)
  IN IF filteredResults = <<>> THEN "empty"
     ELSE IF RenderThrows(filteredResults, query) THEN "threw"
     ELSE "results"

SetDom(dom) ==
  /\ loadingHidden' = dom.loadingHidden
  /\ resultsHTML' = dom.resultsHTML
  /\ noResultsHidden' = dom.noResultsHidden

SameInputs(a, b) ==
  /\ a.query = b.query
  /\ a.category = b.category
  /\ a.static = b.static
  /\ a.hits = b.hits

\* The history record of a call that ends.  sequential: no other call ended
\* between its start and its end, so the call before it had ended before it
\* started; repeat: it and the call before it were both sequential and had
\* the same inputs.
Done(query, category, static, customResults, pagefindResults, outcome, sequential, dom) ==
  LET this == [query |-> query, category |-> category, static |-> static,
               hits |-> pagefindResults, custom |-> customResults,
               outcome |-> outcome, sequential |-> sequential, repeat |-> FALSE,
               dom |-> dom]
  IN [this EXCEPT !.repeat = sequential /\ lastDone.sequential /\ SameInputs(lastDone, this)]

\* searchPagefind's guard, line 70.
PagefindUnavailable == pagefind = "null" \/ ~pagefindLoaded

\* The model's bound on overlapping searches.
CanStart == PagefindUnavailable \/ Len(inFlight) < MaxInFlight

\* PerformSearch whose join always waits for a later task, the static engine
\* loaded or not.
PerformSearchDeferred(query, category) ==
  LET found == SearchContent(searchIndex, query, category)
  IN /\ lastCall' = [query |-> query, category |-> category]
     /\ IF found.threw
        THEN /\ SetDom(StartDom)
             /\ inFlight' = inFlight
             /\ lastDone' = Done(query, category, "none", <<>>, <<>>,
                                 "searchContentThrew", TRUE, StartDom)
        ELSE /\ SetDom(StartDom)
             /\ inFlight' = Append(inFlight,
                              [query |-> query, category |-> category,
                               customResults |-> found.value, pc |-> "search",
                               hits |-> <<>>])
             /\ lastDone' = lastDone

\* PerformSearch that aborts the searches in flight when it starts one.
PerformSearchAborting(query, category) ==
  LET found == SearchContent(searchIndex, query, category)
  IN /\ lastCall' = [query |-> query, category |-> category]
     /\ IF found.threw
        THEN /\ SetDom(StartDom)
             /\ inFlight' = inFlight
             /\ lastDone' = Done(query, category, "none", <<>>, <<>>,
                                 "searchContentThrew", TRUE, StartDom)
        ELSE IF PagefindUnavailable
        THEN LET dom == RenderDom(StartDom, query, category, found.value, <<>>)
             IN /\ SetDom(dom)
                /\ inFlight' = inFlight
                /\ lastDone' = Done(query, category, "unavailable", found.value, <<>>,
                                    Outcome(query, category, found.value, <<>>), TRUE, dom)
        ELSE /\ SetDom(StartDom)
             /\ inFlight' = Append(<<>>,
                              [query |-> query, category |-> category,
                               customResults |-> found.value, pc |-> "search",
                               hits |-> <<>>])
             /\ lastDone' = lastDone

\* performSearch(query, category) up to its await, and past it when the join
\* resolves from promises that are already resolved (searchPagefind returned
\* [] at line 71): then the continuation runs before any other event.
PerformSearch(query, category) ==
  LET found == SearchContent(searchIndex, query, category)
  IN /\ lastCall' = [query |-> query, category |-> category]
     /\ IF found.threw
        THEN /\ SetDom(StartDom)
             /\ inFlight' = inFlight
             /\ lastDone' = Done(query, category, "none", <<>>, <<>>,
                                 "searchContentThrew", TRUE, StartDom)
        ELSE IF PagefindUnavailable
        THEN LET dom == RenderDom(StartDom, query, category, found.value, <<>>)
             IN /\ SetDom(dom)
                /\ inFlight' = inFlight
                /\ lastDone' = Done(query, category, "unavailable", found.value, <<>>,
                                    Outcome(query, category, found.value, <<>>), TRUE, dom)
        ELSE /\ SetDom(StartDom)
             /\ inFlight' = Append(inFlight,
                              [query |-> query, category |-> category,
                               customResults |-> found.value, pc |-> "search",
                               hits |-> <<>>])
             /\ lastDone' = lastDone

RemoveAt(seq, i) == SubSeq(seq, 1, i - 1) \o SubSeq(seq, i + 1, Len(seq))

\* The continuation of the i-th search in flight, lines 162-255, once
\* searchPagefind has returned pagefindResults.
Continue(i, static, pagefindResults) ==
  LET s == inFlight[i]
      dom == RenderDom(Dom, s.query, s.category, s.customResults, pagefindResults)
  IN /\ SetDom(dom)
     /\ inFlight' = RemoveAt(inFlight, i)
     /\ lastCall' = lastCall
     /\ lastDone' = Done(s.query, s.category, static, s.customResults, pagefindResults,
                         Outcome(s.query, s.category, s.customResults, pagefindResults),
                         Len(inFlight) = 1 /\ ~loadingHidden, dom)

\* pagefind.search(query) rejects: the catch of line 94 returns [].
PagefindSearchRejects(i) ==
  /\ i \in 1..Len(inFlight)
  /\ inFlight[i].pc = "search"
  /\ Continue(i, "searchRejected", <<>>)
  /\ UNCHANGED loaderVars
  /\ UNCHANGED uiVars

\* pagefind.search(query) resolves with hits: with none Promise.all([]) is
\* resolved at once, else the details are awaited.
PagefindSearchResolves(i, hits) ==
  /\ i \in 1..Len(inFlight)
  /\ inFlight[i].pc = "search"
  /\ IF hits = <<>>
     THEN Continue(i, "resolved", <<>>)
     ELSE /\ inFlight' = [inFlight EXCEPT ![i].pc = "data", ![i].hits = hits]
          /\ UNCHANGED <<loadingHidden, resultsHTML, noResultsHidden, lastDone, lastCall>>
  /\ UNCHANGED loaderVars
  /\ UNCHANGED uiVars

\* One result.data() rejects: Promise.all rejects, the catch returns [].
PagefindDataRejects(i) ==
  /\ i \in 1..Len(inFlight)
  /\ inFlight[i].pc = "data"
  /\ Continue(i, "dataRejected", <<>>)
  /\ UNCHANGED loaderVars
  /\ UNCHANGED uiVars

\* Every result.data() resolves: the hits become records, lines 77-93.
PagefindDataResolves(i) ==
  /\ i \in 1..Len(inFlight)
  /\ inFlight[i].pc = "data"
  /\ Continue(i, "resolved", HitRecords(inFlight[i].hits))
  /\ UNCHANGED loaderVars
  /\ UNCHANGED uiVars

\* ---------------------------------------------------------- the listeners
\* InitializeSearch without the await of line 260.
InitializeSearchNoAwait ==
  /\ initPc = "loading"
  /\ initPc' = "ready"
  /\ IF IsFalsy(locationQ)
     THEN UNCHANGED <<inputValue, loadingHidden, resultsHTML, noResultsHidden,
                      inFlight, lastDone, lastCall>>
     ELSE /\ inputValue' = locationQ
          /\ PerformSearch(locationQ, "")
  /\ lastEvent' = "init"
  /\ UNCHANGED <<locationQ, categoryValue, timers, otherServicesHidden, cancelled>>
  /\ UNCHANGED loaderVars

\* InitializeSearch with the test query !== null in place of line 271.
InitializeSearchNullTest ==
  /\ initPc = "loading"
  /\ indexFetch # "pending"
  /\ pagefindProbe # "pending"
  /\ initPc' = "ready"
  /\ IF locationQ = Missing
     THEN UNCHANGED <<inputValue, loadingHidden, resultsHTML, noResultsHidden,
                      inFlight, lastDone, lastCall>>
     ELSE /\ inputValue' = locationQ
          /\ PerformSearch(locationQ, "")
  /\ lastEvent' = "init"
  /\ UNCHANGED <<locationQ, categoryValue, timers, otherServicesHidden, cancelled>>
  /\ UNCHANGED <<searchIndex, pagefind, pagefindLoaded, indexFetch, pagefindProbe>>

\* initializeSearch past its await, lines 262-307: read q, fill the input and
\* search when q is truthy, attach the listeners.
InitializeSearch ==
  /\ initPc = "loading"
  /\ indexFetch # "pending"
  /\ pagefindProbe # "pending"
  /\ initPc' = "ready"
  /\ IF IsFalsy(locationQ)
     THEN UNCHANGED <<inputValue, loadingHidden, resultsHTML, noResultsHidden,
                      inFlight, lastDone, lastCall>>
     ELSE /\ inputValue' = locationQ
          /\ PerformSearch(locationQ, "")
  /\ lastEvent' = "init"
  /\ UNCHANGED <<locationQ, categoryValue, timers, otherServicesHidden, cancelled>>
  /\ UNCHANGED loaderVars

\* ClearTimeout without effect.
ClearTimeoutNoop(pending) == pending

\* clearTimeout(debounceTimer), line 280: the timeout whose id the variable
\* holds is no longer pending (no effect when it has fired or none was set).
ClearTimeout(pending) == SelectSeq(pending, LAMBDA t : ~t.handle)

\* debounceTimer = setTimeout(..., 300), lines 296-298: one more pending
\* timeout, and the variable holds its id.
SetTimeout(pending, query) ==
  Append([i \in 1..Len(pending) |-> [pending[i] EXCEPT !.handle = FALSE]],
         [query |-> query, handle |-> TRUE])

\* The query of the pending timeout debounceTimer designates, or Missing.
Designated(pending) ==
  IF \E i \in 1..Len(pending) : pending[i].handle
  THEN pending[CHOOSE i \in 1..Len(pending) : pending[i].handle].query
  ELSE Missing

\* The input listener, lines 279-299, for the value text.
InputEvent(text) ==
  LET query == Trim(text)
      cleared == ClearTimeout(timers)
  IN /\ initPc = "ready"
     /\ Len(query) >= 2 => Len(cleared) < MaxTimers
     /\ inputValue' = text
     /\ lastEvent' = IF Len(query) < 2 THEN "shortInput" ELSE "input"
     /\ cancelled' = IF cleared # timers THEN Designated(timers) ELSE Missing
     /\ IF Len(query) < 2
        THEN /\ timers' = cleared
             /\ resultsHTML' = EmptyHTML
             /\ noResultsHidden' = TRUE
             /\ otherServicesHidden' = FALSE
             /\ UNCHANGED locationQ
        ELSE /\ otherServicesHidden' = TRUE
             /\ locationQ' = query
             /\ timers' = SetTimeout(cleared, query)
             /\ UNCHANGED <<resultsHTML, noResultsHidden>>
     /\ UNCHANGED <<initPc, categoryValue, loadingHidden, inFlight, lastDone, lastCall>>
     /\ UNCHANGED loaderVars

\* The callback of the i-th pending timeout, lines 296-298.
DebounceFires(i) ==
  /\ i \in 1..Len(timers)
  /\ CanStart
  /\ timers' = RemoveAt(timers, i)
  /\ lastEvent' = "timer"
  /\ PerformSearch(timers[i].query, categoryValue)
  /\ UNCHANGED <<initPc, locationQ, inputValue, categoryValue, otherServicesHidden,
                 cancelled>>
  /\ UNCHANGED loaderVars

\* The change listener of the category filter, lines 302-307.
CategoryChange(category) ==
  LET query == Trim(inputValue)
  IN /\ initPc = "ready"
     /\ category # categoryValue
     /\ categoryValue' = category
     /\ lastEvent' = "category"
     /\ IF Len(query) >= 2
        THEN CanStart /\ PerformSearch(query, category)
        ELSE UNCHANGED searchVars
     /\ UNCHANGED <<initPc, locationQ, inputValue, timers, otherServicesHidden,
                    cancelled>>
     /\ UNCHANGED loaderVars

\* The user edits the controls while initializeSearch still awaits the
\* loaders: no listener is attached yet.
EditBeforeReady(text, category) ==
  /\ initPc = "loading"
  /\ <<text, category>> # <<inputValue, categoryValue>>
  /\ inputValue' = text
  /\ categoryValue' = category
  /\ UNCHANGED <<initPc, locationQ, timers, otherServicesHidden, lastEvent, cancelled>>
  /\ UNCHANGED searchVars
  /\ UNCHANGED loaderVars

\* ------------------------------------------------------ the specifications
\* Spec: one page (PageBodies, PageHitLists) through any number of events and
\* overlapping searches.
Next ==
  \/ LoadSearchIndexRejects
  \/ \E body \in PageBodies : LoadSearchIndexParsed(TRUE, body)
  \/ \E how \in PagefindEndings : LoadPagefindEnds(how)
  \/ InitializeSearch
  \/ \E text \in PageInputTexts, category \in PageFilterValues : EditBeforeReady(text, category)
  \/ \E text \in PageInputTexts : InputEvent(text)
  \/ \E i \in 1..MaxTimers : DebounceFires(i)
  \/ \E category \in PageFilterValues : CategoryChange(category)
  \/ \E i \in 1..MaxInFlight : PagefindSearchRejects(i)
  \/ \E i \in 1..MaxInFlight, hits \in PageHitLists : PagefindSearchResolves(i, hits)

Spec == Init /\ [][Next]_vars

\* SpecOnce: every response body, every way the loaders end, every list of
\* hits, every query and filter value, up to the end of the first search of the
\* page.
Fresh == lastDone = NoSearch /\ inFlight = <<>>

NextOnce ==
  \/ LoadSearchIndexRejects
  \/ \E ok \in BOOLEAN : LoadSearchIndexUnparsable(ok)
  \/ \E ok \in BOOLEAN, body \in ParsedBodies : LoadSearchIndexParsed(ok, body)
  \/ \E how \in PagefindEndings : LoadPagefindEnds(how)
  \/ InitializeSearch
  \/ \E text \in InputTexts : Fresh /\ inputValue = <<>> /\ InputEvent(text)
  \/ \E i \in 1..MaxTimers : Fresh /\ DebounceFires(i)
  \/ \E category \in FilterValues : Fresh /\ categoryValue = "" /\ CategoryChange(category)
  \/ \E i \in 1..MaxInFlight : PagefindSearchRejects(i)
  \/ \E i \in 1..MaxInFlight, hits \in HitLists : PagefindSearchResolves(i, hits)
  \/ \E i \in 1..MaxInFlight : PagefindDataRejects(i)
  \/ \E i \in 1..MaxInFlight : PagefindDataResolves(i)

SpecOnce == Init /\ [][NextOnce]_vars

\* ---------------------------------------------------------------- claims
RECURSIVE Flatten(_)
Flatten(groups) ==
  IF groups = <<>> THEN <<>> ELSE Head(groups).items \o Flatten(Tail(groups))

\* The cards of a results container, in page order.
Cards(html) == Flatten(html.groups)

Range(seq) == {seq[i] : i \in 1..Len(seq)}

UniqueUrls(cards) ==
  \A i, j \in 1..Len(cards) : cards[i].url = cards[j].url => i = j

\* C1: whatever the index, the hits, the query and the filter value, the
\* results container never holds two cards with the same url.
C1_UrlsUnique == UniqueUrls(Cards(resultsHTML))

\* A search has rendered at least two cards from custom matches that share a
\* url and from a hit whose url a custom match has too.
C1_Witness ==
  /\ lastDone.outcome = "results"
  /\ resultsHTML = lastDone.dom.resultsHTML
  /\ Len(Cards(resultsHTML)) >= 2
  /\ ~UniqueUrls(lastDone.custom)
  /\ \E k \in 1..Len(lastDone.hits) : lastDone.hits[k].url \in Urls(lastDone.custom)

\* The record matches the query text, whatever its category.
TextMatches(item, query) == ItemMatch(item, ToLowerCase(query), "") = "yes"

\* C2: for every query and every filter value, a hit of the static index is
\* never rendered for a url of which a custom record matches the query text
\* (the custom record is the one rendered for that url).
C2_CustomWins ==
  lastDone.outcome = "results" =>
    \A card \in Range(Cards(lastDone.dom.resultsHTML)) :
      card.src = "static" =>
        ~\E i \in 1..Len(searchIndex.items) :
            /\ searchIndex.items[i].url = card.url
            /\ TextMatches(searchIndex.items[i], lastDone.query)

\* C3: after an input event with a trimmed text shorter than 2 and until the
\* next listener runs, the results container is empty, the no-results
\* indicator is hidden and no timer is pending.
C3_ShortInputStaysIdle ==
  lastEvent = "shortInput" =>
    /\ resultsHTML = EmptyHTML
    /\ noResultsHidden
    /\ timers = <<>>

\* C4: when the filter is set to c, every card a search renders, from the
\* custom index or from the static index, has category c.
C4_FilterStrict ==
  (lastDone.outcome = "results" /\ lastDone.category # "") =>
    \A card \in Range(Cards(lastDone.dom.resultsHTML)) :
      card.category = lastDone.category

\* A filtered search has rendered a custom card and a static card, and the
\* static index had returned a hit of another category.
C4_Witness ==
  /\ lastDone.outcome = "results"
  /\ lastDone.category # ""
  /\ \E k \in 1..Len(lastDone.hits) : lastDone.hits[k].category # lastDone.category
  /\ \E card \in Range(Cards(lastDone.dom.resultsHTML)) : card.src = "static"
  /\ \E card \in Range(Cards(lastDone.dom.resultsHTML)) : card.src = "custom"

\* The records performSearch(query, category) shows for the index in memory
\* and the static results pagefindResults.
Shown(query, category, pagefindResults) ==
  Range(FilterResults(
          MergeResults(SearchContent(searchIndex, query, category).value, pagefindResults),
          category))

\* C5: for the query and the sources of the search that ended, the records
\* shown under the category labels together are the records shown without a
\* filter, and a filtered search shows no record the unfiltered one does not.
C5_UnionIsUnfiltered ==
  lastDone.outcome \in {"results", "empty"} =>
    /\ UNION {Shown(lastDone.query, c, lastDone.hits) : c \in Categories}
         = Shown(lastDone.query, "", lastDone.hits)
    /\ lastDone.outcome = "results" =>
         Range(Cards(lastDone.dom.resultsHTML)) \subseteq Shown(lastDone.query, "", lastDone.hits)

\* C6: a search run right after a search with the same text, category and
\* static results, each without another search ending during it, leaves the
\* page as the first one left it: the same groups in the same order with the
\* same records, the same indicators.
C6_Idempotent ==
  [][lastDone'.repeat =>
       /\ lastDone'.outcome = lastDone.outcome
       /\ lastDone'.dom = lastDone.dom]_vars

\* The second of two such searches has ended, with results on the page.
C6_Witness ==
  /\ lastDone.repeat
  /\ lastDone.outcome = "results"
  /\ lastDone.static = "resolved"

PagefindFailed ==
  pagefindProbe \in {"probeRejected", "probeNotOk", "importThrew", "optionsThrew"}

\* C7: once loadPagefind has ended on a failed probe or a throwing module, the
\* adapter is unavailable in every later state, no search is ever handed to the
\* static engine, and initializeSearch can go on to attach the listeners.
C7_UnavailableForGood ==
  PagefindFailed =>
    /\ ~pagefindLoaded
    /\ PagefindUnavailable
    /\ inFlight = <<>>
    /\ lastDone.static \in {"none", "unavailable"}
    /\ (indexFetch # "pending" /\ initPc = "loading") => ENABLED InitializeSearch

\* pagefind.options threw (pagefind is set), the listeners are attached and a
\* search has ended with results.
C7_Witness ==
  /\ pagefindProbe = "optionsThrew"
  /\ pagefind = "module"
  /\ initPc = "ready"
  /\ lastDone.outcome = "results"

\* C8: with the static index unavailable, a search that ends has rendered the
\* custom matches (one per url) and the note that static pages are not
\* indexed, whether it found results or none.
C8_UnavailableShowsNote ==
  lastDone.static = "unavailable" =>
    /\ Cards(lastDone.dom.resultsHTML) = AddUnseen(<<>>, {}, lastDone.custom)
    /\ lastDone.dom.resultsHTML.devNote

\* C9: a search whose static-index call failed got an empty sequence from
\* searchPagefind, no exception, and has rendered the custom matches.
C9_StaticErrorContained ==
  lastDone.static \in {"searchRejected", "dataRejected"} =>
    /\ lastDone.hits = <<>>
    /\ lastDone.outcome \in {"results", "empty"}
    /\ Cards(lastDone.dom.resultsHTML) = AddUnseen(<<>>, {}, lastDone.custom)

IndexFetchFailed ==
  \/ indexFetch \in {"rejected", "okUnparsable", "notOkUnparsable", "notOkParsed"}
  \/ indexFetch = "okParsed" /\ searchIndex.kind # "array"

\* C10: after a failed fetch of the custom index (rejection, non-OK status,
\* unparsable body, body that is no array) the index in memory is the empty
\* sequence and no later search throws in searchContent.
C10_FailedFetchLeavesEmptyIndex ==
  IndexFetchFailed =>
    /\ searchIndex = JsonArray(<<>>)
    /\ lastDone.outcome # "searchContentThrew"

\* The index in memory is an array whose records all carry a title and a
\* content.
IndexWellFormed ==
  /\ searchIndex.kind = "array"
  /\ \A i \in 1..Len(searchIndex.items) :
       searchIndex.items[i].title # Missing /\ searchIndex.items[i].content # Missing

\* C11: a search for a text of 2 or more characters over a well-formed index,
\* whose static calls have resolved or rejected, has hidden the loading
\* indicator and ended in exactly one of Results (container populated) and
\* Empty (no-results indicator visible).
C11_EndsInResultsOrEmpty ==
  (lastDone.outcome # "none" /\ Len(lastDone.query) >= 2 /\ IndexWellFormed) =>
    /\ lastDone.dom.loadingHidden
    /\ lastDone.outcome \in {"results", "empty"}
    /\ (lastDone.dom.resultsHTML # EmptyHTML) # (~lastDone.dom.noResultsHidden)

\* C12: at most one timeout is pending at any time, and it is the one the
\* last input event scheduled, for the trimmed text of that event (2 or more
\* characters); after an input event with a shorter trimmed text none is
\* pending; when the timeout fires, performSearch is called with the text of
\* the last input event and no timeout is left to call it again.
C12_TrailingDebounce ==
  /\ Len(timers) <= 1
  /\ \A i \in 1..Len(timers) :
       /\ timers[i].handle
       /\ timers[i].query = Trim(inputValue)
       /\ Len(timers[i].query) >= 2
  /\ lastEvent = "shortInput" => timers = <<>>
  /\ lastEvent = "input" => Len(timers) = 1
  /\ lastEvent = "timer" => (timers = <<>> /\ lastCall.query = Trim(inputValue))

\* A burst: an input event cleared the pending timeout of an earlier text,
\* and the timeout it scheduled has fired with the later text.
C12_Witness ==
  /\ lastEvent = "timer"
  /\ cancelled # Missing
  /\ cancelled # lastCall.query
  /\ lastCall.query = Trim(inputValue)

\* C13: when the timeout has fired and called performSearch with a text, the
\* q parameter of the address is that text; and after an input event that
\* cleared the pending timeout of a text and scheduled none, q is not the
\* text whose search was cancelled.
C13_QIsSearchedText ==
  /\ lastEvent = "timer" => locationQ = lastCall.query
  /\ (lastEvent = "shortInput" /\ cancelled # Missing) => locationQ # cancelled

\* C14: after an input event that leaves the input empty or blank, the
\* address has no q parameter.
C14_ClearedInputRemovesQ ==
  (lastEvent = "shortInput" /\ Trim(inputValue) = <<>>) => locationQ = Missing

\* C15: once initializeSearch has run and until a listener runs: with a
\* non-empty q in the address the input holds q and performSearch has been
\* called exactly once, with q and no category, and no timeout was set; with
\* q absent or empty no search has been called.
C15_InitialQuery ==
  lastEvent = "init" =>
    /\ timers = <<>>
    /\ IF IsFalsy(locationQ)
       THEN lastCall = NoCall /\ inFlight = <<>> /\ lastDone = NoSearch
       ELSE /\ inputValue = locationQ
            /\ lastCall = [query |-> locationQ, category |-> ""]
            /\ \/ /\ Len(inFlight) = 1
                  /\ inFlight[1].query = locationQ
                  /\ inFlight[1].category = ""
                  /\ lastDone = NoSearch
               \/ /\ inFlight = <<>>
                  /\ lastDone.query = locationQ
                  /\ lastDone.category = ""

\* The page was opened with a q of two characters while the category filter
\* had been set before the listeners were attached; the search for q has
\* ended with results.
C15_Witness ==
  /\ lastEvent = "init"
  /\ Len(locationQ) = 2
  /\ categoryValue # ""
  /\ lastDone.query = locationQ
  /\ lastDone.outcome = "results"

\* C16: a change of the category filter, once the listeners are attached,
\* calls performSearch with the text of the last performSearch call and the
\* new category when there has been such a call, and calls no search when
\* there has been none, also while a timeout for a newer text is pending
\* (stated for last calls made with a text of 2 or more characters).
C16_CategoryRerunsCommitted ==
  [][(/\ initPc = "ready"
      /\ categoryValue' # categoryValue
      /\ lastCall.query # Missing => Len(lastCall.query) >= 2) =>
       IF lastCall.query = Missing
       THEN lastCall' = lastCall /\ inFlight' = inFlight /\ lastDone' = lastDone
       ELSE lastCall' = [query |-> lastCall.query, category |-> categoryValue']]_vars

\* C17: every performSearch call, from the timeout, from the category
\* listener and from initializeSearch, is made with a text of 2 or more
\* characters.
C17_SearchedTextIsLong ==
  lastCall # NoCall => Len(lastCall.query) >= 2

\* C18: whatever array of records the loader left in memory (a record may
\* miss its title) and whatever query that is a valid pattern, a search that
\* ended did not end by an exception, neither out of searchContent nor out
\* of the merge and render steps.
C18_NoExceptionInMergeRender ==
  (searchIndex.kind = "array" /\ RegExpCompiles(lastDone.query)) =>
    lastDone.outcome \notin {"searchContentThrew", "threw"}

\* The static records whose url is neither a url of the custom matches nor
\* the url of an earlier static record.
StaticRest(customResults, pagefindResults) ==
  AddUnseen(<<>>, Urls(customResults), pagefindResults)

\* No record occurs twice in the sequence.
Distinct(results) ==
  \A i, j \in 1..Len(results) : results[i] = results[j] => i = j

\* C19: the merged list of a search that rendered (its custom matches being
\* distinct records) is all its custom matches, in index order, followed by
\* the static records whose url is not present yet, in the engine's order; no
\* custom match is left out.
C19_MergeKeepsCustomMatches ==
  (lastDone.outcome \in {"results", "empty"} /\ Distinct(lastDone.custom)) =>
    MergeResults(lastDone.custom, lastDone.hits)
      = lastDone.custom \o StaticRest(lastDone.custom, lastDone.hits)

\* The list a search that ended has grouped: lines 162-185 on its results.
Filtered(done) == FilterResults(MergeResults(done.custom, done.hits), done.category)

\* The category labels of a list in the order each is first met.
RECURSIVE FirstSeen(_, _)
FirstSeen(seen, results) ==
  IF results = <<>> THEN seen
  ELSE IF \E i \in 1..Len(seen) : seen[i] = GroupKey(Head(results))
       THEN FirstSeen(seen, Tail(results))
  ELSE FirstSeen(Append(seen, GroupKey(Head(results))), Tail(results))

RECURSIVE SumSizes(_)
SumSizes(groups) ==
  IF groups = <<>> THEN 0 ELSE Len(Head(groups).items) + SumSizes(Tail(groups))

\* C20: the groups a search renders carry the categories of the filtered
\* list in the order each is first met there; each group holds the records of
\* its category in their order in the filtered list; the group sizes sum to
\* the count shown, the length of the filtered list.
C20_GroupsKeepOrder ==
  lastDone.outcome = "results" =>
    LET groups == lastDone.dom.resultsHTML.groups
        filtered == Filtered(lastDone)
    IN /\ [i \in 1..Len(groups) |-> groups[i].category] = FirstSeen(<<>>, filtered)
       /\ \A i \in 1..Len(groups) :
            groups[i].items
              = SelectSeq(filtered, LAMBDA r : GroupKey(r) = groups[i].category)
       /\ SumSizes(groups) = lastDone.dom.resultsHTML.count
       /\ lastDone.dom.resultsHTML.count = Len(filtered)

\* A search rendered two groups from a list in which a record of the second
\* category stands between two records of the first.
C20_Witness ==
  /\ lastDone.outcome = "results"
  /\ resultsHTML = lastDone.dom.resultsHTML
  /\ Len(resultsHTML.groups) = 2
  /\ LET filtered == Filtered(lastDone)
     IN /\ Len(filtered) = 3
        /\ GroupKey(filtered[1]) = GroupKey(filtered[3])
        /\ GroupKey(filtered[1]) # GroupKey(filtered[2])

\* The Empty state and the Results state of the page.
EmptyState(dom) ==
  dom.loadingHidden /\ ~dom.noResultsHidden /\ dom.resultsHTML = EmptyHTML

ResultsState(dom) ==
  dom.loadingHidden /\ dom.noResultsHidden /\ dom.resultsHTML.groups # <<>>

\* C21: a search that ended without an exception leaves the page in the
\* Empty state when its merged list is empty and in the Results state when it
\* is not, with one block per category whose heading count is the number of
\* its records, whatever the filter value.
C21_StateFollowsMergedList ==
  lastDone.outcome \in {"results", "empty"} =>
    LET merged == MergeResults(lastDone.custom, lastDone.hits)
        groups == lastDone.dom.resultsHTML.groups
    IN IF merged = <<>>
       THEN EmptyState(lastDone.dom)
       ELSE /\ ResultsState(lastDone.dom)
            /\ \A i, j \in 1..Len(groups) :
                 groups[i].category = groups[j].category => i = j
            /\ \A i \in 1..Len(groups) : groups[i].count = Len(groups[i].items)

\* The matching rule: the lower-cased text is part of the lower-cased title
\* or of the lower-cased content, and the category is the one asked for, if
\* one is.
Matches(rec, text, category) ==
  /\ \/ rec.title # Missing /\ Includes(ToLowerCase(rec.title), ToLowerCase(text))
     \/ rec.content # Missing /\ Includes(ToLowerCase(rec.content), ToLowerCase(text))
  /\ category = "" \/ rec.category = category

\* C22: for an index that is an array, the searchContent call of a search
\* that ended returned the records of the index that match its text and
\* category, all of them and no other, in index order.
C22_SearchContentExact ==
  (lastDone.outcome # "none" /\ searchIndex.kind = "array") =>
    /\ lastDone.outcome # "searchContentThrew"
    /\ lastDone.custom
         = SelectSeq(searchIndex.items,
                     LAMBDA rec : Matches(rec, lastDone.query, lastDone.category))

\* The markup without the highlight tags.
Unmarked(html) == SelectSeq(html, LAMBDA ch : ch \notin {MarkOpen, MarkClose})

\* The excerpt createExcerpt returned is the window of the text around the
\* first occurrence of the query: from 50 before it to 100 after it, within
\* the text, with "..." in front exactly when the window starts after the
\* beginning and "..." behind exactly when it ends before the end.
IsWindow(excerpt, text, query) ==
  LET textOnly == TextOnly(text)
      i == IndexOf(ToLowerCase(textOnly), ToLowerCase(query))
      start == IF i > WindowBefore THEN i - WindowBefore ELSE 0
      end == IF i + Len(query) + WindowAfter < Len(textOnly)
             THEN i + Len(query) + WindowAfter ELSE Len(textOnly)
  IN /\ ~excerpt.threw
     /\ Unmarked(excerpt.html)
          = (IF start > 0 THEN Ellipsis ELSE <<>>)
            \o SubSeq(textOnly, start + 1, end)
            \o (IF end < Len(textOnly) THEN Ellipsis ELSE <<>>)
     /\ start <= i
     /\ i + Len(query) <= end

\* The records a search that reached the rendering made an excerpt for, and
\* whose text holds the query.
Excerpted(done) ==
  {r \in Range(Filtered(done)) :
     /\ IsFalsy(r.excerpt)
     /\ r.content # Missing
     /\ Includes(ToLowerCase(TextOnly(r.content)), ToLowerCase(done.query))}

\* C23: for every record a search makes an excerpt for and whose text holds
\* the query, createExcerpt returns the window around the first occurrence,
\* with the two ellipses exactly where the window was cut.
C23_ExcerptIsWindow ==
  lastDone.outcome \in {"results", "threw"} =>
    \A r \in Excerpted(lastDone) :
      IsWindow(CreateExcerpt(r.content, lastDone.query, ExcerptLength),
               r.content, lastDone.query)

\* The query has no character a pattern reads as an operator.
IsLiteral(query) ==
  \A i \in 1..Len(query) :
    query[i] \notin {"(", ")", "[", "]", "{", "}", ".", "*", "+", "?", "^", "$", "|", "\\"}

\* html is text with occurrences of query wrapped: without the tags it is
\* text; every opening tag is followed by an occurrence of query, in the
\* letters of text, and its closing tag, and every closing tag ends such a
\* group; no occurrence of query is left outside the tags.
IsHighlighted(html, text, query) ==
  LET n == Len(query)
  IN /\ Unmarked(html) = text
     /\ \A k \in 1..Len(html) :
          html[k] = MarkOpen =>
            /\ k + n + 1 <= Len(html)
            /\ html[k + n + 1] = MarkClose
            /\ ToLowerCase(SubSeq(html, k + 1, k + n)) = ToLowerCase(query)
     /\ \A k \in 1..Len(html) :
          html[k] = MarkClose => (k - n - 1 >= 1 /\ html[k - n - 1] = MarkOpen)
     /\ \A k \in 1..(Len(html) - n + 1) :
          ToLowerCase(SubSeq(html, k, k + n - 1)) = ToLowerCase(query) =>
            (k > 1 /\ html[k - 1] = MarkOpen)

\* C24: for a search with a literal query that rendered, the title of every
\* card is the title of its record with every occurrence of the query
\* wrapped once, in the letters of the title, and nothing else changed.
C24_HighlightWrapsOccurrences ==
  (lastDone.outcome = "results" /\ IsLiteral(lastDone.query)) =>
    \A r \in Range(Cards(lastDone.dom.resultsHTML)) :
      /\ ~Card(r, lastDone.query).title.threw
      /\ IsHighlighted(Card(r, lastDone.query).title.html, r.title, lastDone.query)

\* A search rendered a title in which the query occurs twice, in different
\* letters.
C24_Witness ==
  /\ lastDone.outcome = "results"
  /\ IsLiteral(lastDone.query)
  /\ \E r \in Range(Cards(lastDone.dom.resultsHTML)) :
       LET html == Card(r, lastDone.query).title.html
       IN \E k, m \in 1..Len(html) :
            /\ k < m
            /\ html[k] = MarkOpen
            /\ html[m] = MarkOpen
            /\ html[k + 1] # html[m + 1]

\* C25: no search in flight is ever cancelled: a search leaves the searches
\* in flight only by running its own continuation, which becomes the search
\* that ended last, and a search that starts leaves those in flight before it
\* as they are; so two can be in flight, and the one called first can render
\* last.
C25_InFlightNeverCancelled ==
  [][/\ Len(inFlight') >= Len(inFlight) =>
          \A i \in 1..Len(inFlight) :
            /\ inFlight'[i].query = inFlight[i].query
            /\ inFlight'[i].category = inFlight[i].category
     /\ Len(inFlight') < Len(inFlight) =>
          \E i \in 1..Len(inFlight) :
            /\ inFlight' = RemoveAt(inFlight, i)
            /\ lastDone'.query = inFlight[i].query
            /\ lastDone'.category = inFlight[i].category
            /\ lastDone'.custom = inFlight[i].customResults
            /\ lastDone'.dom = Dom']_vars

\* Both of two overlapping searches have ended; the one called first ended
\* last, after the other had rendered, and its results are on the page: a
\* card of another category than the one selected and searched last.
C25_Witness ==
  /\ inFlight = <<>>
  /\ lastDone.outcome = "results"
  /\ ~lastDone.sequential
  /\ lastDone.static = "resolved"
  /\ lastCall.query = lastDone.query
  /\ lastCall.category = categoryValue
  /\ lastCall.category # lastDone.category
  /\ resultsHTML = lastDone.dom.resultsHTML
  /\ \E card \in Range(Cards(resultsHTML)) : card.category # categoryValue

\* C26: the loading indicator and the no-results indicator are never both
\* visible, whatever searches overlap and whatever short input resets the
\* page.
C26_LoadingAndEmptyApart == ~(~loadingHidden /\ ~noResultsHidden)

\* The no-results indicator of a search that ended shows while another search
\* is still in flight.
C26_Witness ==
  /\ inFlight # <<>>
  /\ ~noResultsHidden
  /\ loadingHidden
  /\ lastDone.outcome = "empty"

\* C27: searchIndex changes only in the step in which the one loadSearchIndex
\* call ends, and that call never ends twice; initializeSearch passes its
\* await once; and once the listeners are attached no step changes
\* searchIndex, pagefind or pagefindLoaded.
C27_IndexWrittenOnce ==
  [][/\ searchIndex' # searchIndex => indexFetch = "pending" /\ indexFetch' # "pending"
     /\ indexFetch # "pending" => indexFetch' = indexFetch
     /\ pagefindProbe # "pending" => pagefindProbe' = pagefindProbe
     /\ initPc = "ready" => initPc' = "ready"
     /\ initPc' # initPc => lastEvent' = "init" /\ lastEvent = "none"
     /\ (initPc = "ready" \/ lastCall' # lastCall \/ inFlight' # inFlight
           \/ resultsHTML' # resultsHTML \/ timers' # timers
           \/ inputValue' # inputValue \/ categoryValue' # categoryValue) =>
          /\ searchIndex' = searchIndex
          /\ pagefind' = pagefind
          /\ pagefindLoaded' = pagefindLoaded]_vars

\* The index was loaded with records, and searches have run from the q
\* parameter's successor events: the last one from a category change, one
\* ended with cards.
C27_Witness ==
  /\ indexFetch = "okParsed"
  /\ searchIndex # JsonArray(<<>>)
  /\ initPc = "ready"
  /\ lastEvent = "category"
  /\ lastDone.outcome = "results"
  /\ lastCall # NoCall

\* C28: with the static engine unavailable no search is ever in flight when
\* an event is handled; the search that ended last is the one called last and
\* no other call ended while it ran; its cards are those of its own custom
\* results; and the results container holds these cards or, after a short
\* input, none.
C28_UnavailableIsAtomic ==
  PagefindUnavailable =>
    /\ inFlight = <<>>
    /\ lastCall # NoCall =>
         /\ lastDone.query = lastCall.query
         /\ lastDone.category = lastCall.category
         /\ lastDone.sequential
         /\ lastDone.hits = <<>>
         /\ lastDone.outcome = "results" =>
              lastDone.dom.resultsHTML = ResultsHTML(Filtered(lastDone), pagefindLoaded)
         /\ lastDone.outcome # "results" => lastDone.dom.resultsHTML = EmptyHTML
         /\ resultsHTML \in {lastDone.dom.resultsHTML, EmptyHTML}

\* The static engine is unavailable, a category is selected, a timer callback
\* has searched, and its cards are on the page.
C28_Witness ==
  /\ PagefindUnavailable
  /\ initPc = "ready"
  /\ lastEvent = "timer"
  /\ lastCall.category # ""
  /\ lastDone.outcome = "results"
  /\ resultsHTML = lastDone.dom.resultsHTML
  /\ resultsHTML # EmptyHTML

\* C29: the no-results indicator is never visible while the results
\* container holds cards.
C29_ResultsAndEmptyApart == ~(~noResultsHidden /\ resultsHTML # EmptyHTML)

\* C30: a performSearch call, a search in flight, a pending timer or attached
\* listeners are found only after loadSearchIndex and loadPagefind have both
\* ended.
C30_NoSearchBeforeLoaded ==
  (\/ lastCall # NoCall
   \/ lastDone # NoSearch
   \/ inFlight # <<>>
   \/ timers # <<>>
   \/ initPc = "ready"
   \/ Dom # IdleDom) =>
    /\ indexFetch # "pending"
    /\ pagefindProbe # "pending"

\* The q parameter's search is in flight: both loaders had ended before it
\* was called, one of them by failure.
C30_Witness ==
  /\ lastEvent = "init"
  /\ lastCall # NoCall
  /\ lastCall.query = locationQ
  /\ inFlight # <<>>
  /\ indexFetch = "rejected"
  /\ pagefindProbe = "loaded"

====
